---- MODULE Spec2Model ----
(* A state-machine model of the blog application in src/main.py: the three    *)
(* tables (users, blog_posts, comments), the per-browser login session, and   *)
(* one action per route handler.  A step is one HTTP request, except          *)
(* registration, which is split at its commit so that two registrations can   *)
(* race between the "email already exists" lookup and the INSERT; the         *)
(* response a handler returns is held in resp until send_response hands it    *)
(* to the browser.                                                            *)
EXTENDS Integers, Sequences, FiniteSets, TLC

\* ---------------------------------------------------------------- bounds
MaxPosts == 2
MaxComments == 1

\* ------------------------------------------------------- input alphabets
Sessions == {"s1", "s2"}
Methods == {"GET", "POST"}
Emails == {"a@x", "b@x"}
Passwords == {11, 22}
\* the name and password a registration form carries
Credentials == {<<"Ann", 11>>, <<"Bob", 22>>}
Salts == {1, 2}
Titles == {"t1", "t2"}
Subtitles == {"sub"}
Bodies == {"body"}
Images == {"img"}
Texts == {"hi"}
Today == "November 05, 2026"

\* current_user.id of a session nobody is logged in on (flask_login's anonymous user)
Anon == 0
\* a NULL foreign key / a query that matched no row
NULL == 0
\* the id admin_only compares current_user.id with
AdminId == 1

VARIABLES
    users,      \* table users: sequence, row i has id i (rows are never deleted)
    posts,      \* table blog_posts: set of rows
    comments,   \* table comments: set of rows
    session,    \* session[s]: the user id flask_login keeps in browser s's cookie
    reg,        \* reg[s]: s's registration that passed the lookup and has not committed
    plain,      \* history: plain[i] is the password user i registered with
    created,    \* history: number of posts ever inserted (the serial of the newest row)
    resp        \* the response being returned to the browser (NoResponse: none)

vars == <<users, posts, comments, session, reg, plain, created, resp>>

Idle == [valid |-> FALSE]

\* ------------------------------------------------------------- routing
GetOnlyHandlers == {"get_all_posts", "logout", "static", "edit_post", "delete_post"}

\* the methods= argument of each @app.route (GET alone when it is absent)
RouteMethods(h) == IF h \in GetOnlyHandlers THEN {"GET"} ELSE {"GET", "POST"}

PostIds == 1..MaxPosts

\* a request without a form that validates (a GET, or a POST the validators reject)
NoForm == [valid |-> FALSE]
RegisterForms(E, C) ==
    {[valid |-> TRUE, email |-> e, name |-> c[1], password |-> c[2]] : e \in E, c \in C}
LoginForms == [valid : {TRUE}, email : Emails, password : Passwords]
CommentForms == [valid : {TRUE}, comment_text : Texts]
PostForms == [valid : {TRUE}, title : Titles, subtitle : Subtitles,
              body : Bodies, img_url : Images, author : {AdminId}]
FormsFor(m, F) == IF m = "GET" THEN {NoForm} ELSE F \cup {NoForm}

\* the flashed notices
DuplicateEmailNotice == "You've already signed up with that email, log in instead!"
UnknownEmailNotice == "That email doses not exist, please try again."
BadPasswordNotice == "Password incorrect, please try again."
LoginToCommentNotice == "You need to login or register to comment."

\* a response: the status, the redirect target, the flashed notice, the rows rendered
Response(status, location, flash, data) ==
    [status |-> status, location |-> location, flash |-> flash, data |-> data]

\* ------------------------------------------------------------ helpers
\* FlaskForm.validate_on_submit: the request is a submission and the validators pass
validate_on_submit(m, f) == m = "POST" /\ f.valid

is_authenticated_always(u) == TRUE
is_authenticated(u) == u # Anon

\* the test of admin_only's decorated_function (TRUE: the route function runs)
admin_only_any_user(u) == is_authenticated(u)
admin_only(u) == ~(~is_authenticated(u) \/ u # AdminId)

\* User.query.filter_by(email=...).first(): the id of the matching row, or NULL
query_user_by_email_none(email) == NULL
query_user_by_email(email) ==
    IF \E i \in 1..Len(users) : users[i].email = email
    THEN CHOOSE i \in 1..Len(users) : users[i].email = email
    ELSE NULL

\* the key derivation behind werkzeug's pbkdf2:sha256 (injective on the alphabets above)
pbkdf2(password, salt) == (password * 31 + salt * 17) % 97

generate_password_hash(password, salt) ==
    [method |-> "pbkdf2:sha256", salt |-> salt, digest |-> pbkdf2(password, salt)]

check_password_hash_any(pwhash, password) == TRUE
check_password_hash(pwhash, password) ==
    pbkdf2(password, pwhash.salt) = pwhash.digest

login_user(s, uid) == [session EXCEPT ![s] = uid]

logout_user_noop(s) == session
logout_user(s) == [session EXCEPT ![s] = Anon]

\* a query result that is None, and the row of one that is not
None == {}
Row(result) == CHOOSE p \in result : TRUE

\* no request has been answered and not yet sent
NoResponse == Response(0, "", "", None)

\* BlogPost.query.get(post_id): the row (a singleton), or None
query_get_post(post_id) == {p \in posts : p.id = post_id}

\* BlogPost.query.all()
query_all_posts == posts

MaxOf(S) == IF S = {} THEN 0 ELSE CHOOSE x \in S : \A y \in S : y <= x

\* INTEGER PRIMARY KEY of the default sqlite store: one more than the largest id
next_post_id == MaxOf({p.id : p \in posts}) + 1
next_comment_id == MaxOf({c.id : c \in comments}) + 1

\* db.session.add(new_post); db.session.commit()
insert_post_uncommitted(row) == posts
insert_post(row) == posts \cup {row}

\* db.session.add(new_comment); db.session.commit()
insert_comment(row) == comments \cup {row}

\* db.session.delete(post); commit: the row goes, and the comments relationship
\* (no delete cascade) sets post_id of the post's comments to NULL
delete_post_row_kept(p) == posts
delete_post_row(p) == posts \ {p}
orphan_comments(p) ==
    {IF c.post_id = p.id THEN [c EXCEPT !.post_id = NULL] ELSE c : c \in comments}

\* render_template("post.html", post=...): the template dereferences the post
render_post(requested_post) == IF requested_post = None THEN 500 ELSE 200

\* ---------------------------------------------------------------- Init
Init ==
    /\ users = <<>>
    /\ posts = {}
    /\ comments = {}
    /\ session = [s \in Sessions |-> Anon]
    /\ reg = [s \in Sessions |-> Idle]
    /\ plain = <<>>
    /\ created = 0
    /\ resp = NoResponse

\* ------------------------------------------------------------- actions
\* the router: a method the route does not list is answered 405, no handler runs
MethodNotAllowed ==
    /\ resp' = Response(405, "", "", None)
    /\ UNCHANGED <<users, posts, comments, session, reg, plain, created>>

get_all_posts(s) ==
    /\ resp' = Response(200, "", "", query_all_posts)
    /\ UNCHANGED <<users, posts, comments, session, reg, plain, created>>

\* about, contact
static_page(s) ==
    /\ resp' = Response(200, "", "", None)
    /\ UNCHANGED <<users, posts, comments, session, reg, plain, created>>

\* register up to db.session.add: the form and the lookup; a new email leaves the
\* request in flight until register_commit
register(s, m, f) ==
    /\ reg[s] = Idle
    /\ IF ~validate_on_submit(m, f)
       THEN /\ resp' = Response(200, "", "", None)
            /\ UNCHANGED reg
       ELSE IF query_user_by_email(f.email) # NULL
       THEN /\ resp' = Response(302, "login", DuplicateEmailNotice, None)
            /\ UNCHANGED reg
       ELSE /\ reg' = [reg EXCEPT ![s] = f]
            /\ UNCHANGED resp
    /\ UNCHANGED <<users, posts, comments, session, plain, created>>

\* register from db.session.commit on: the unique email column decides
register_commit(s, salt) ==
    /\ reg[s] # Idle
    /\ reg' = [reg EXCEPT ![s] = Idle]
    /\ IF \E i \in 1..Len(users) : users[i].email = reg[s].email
       THEN \* IntegrityError, which register does not catch
            /\ resp' = Response(500, "", "", None)
            /\ UNCHANGED <<users, session, plain>>
       ELSE /\ users' = Append(users,
                   [email |-> reg[s].email, name |-> reg[s].name,
                    password |-> generate_password_hash(reg[s].password, salt)])
            /\ plain' = Append(plain, reg[s].password)
            /\ session' = login_user(s, Len(users) + 1)
            /\ resp' = Response(302, "get_all_posts", "", None)
    /\ UNCHANGED <<posts, comments, created>>

login(s, m, f) ==
    /\ IF ~validate_on_submit(m, f)
       THEN /\ resp' = Response(200, "", "", None)
            /\ UNCHANGED session
       ELSE LET user == query_user_by_email(f.email) IN
            IF user = NULL
            THEN /\ resp' = Response(302, "login", UnknownEmailNotice, None)
                 /\ UNCHANGED session
            ELSE IF ~check_password_hash(users[user].password, f.password)
            THEN /\ resp' = Response(302, "login", BadPasswordNotice, None)
                 /\ UNCHANGED session
            ELSE /\ session' = login_user(s, user)
                 /\ resp' = Response(302, "get_all_posts", "", None)
    /\ UNCHANGED <<users, posts, comments, reg, plain, created>>

logout(s) ==
    /\ session' = logout_user(s)
    /\ resp' = Response(302, "get_all_posts", "", None)
    /\ UNCHANGED <<users, posts, comments, reg, plain, created>>

show_post(s, m, post_id, f) ==
    /\ LET requested_post == query_get_post(post_id) IN
       IF ~validate_on_submit(m, f)
       THEN /\ resp' = Response(render_post(requested_post), "", "", None)
            /\ UNCHANGED comments
       ELSE IF ~is_authenticated(session[s])
       THEN /\ resp' = Response(302, "login", LoginToCommentNotice, None)
            /\ UNCHANGED comments
       ELSE /\ Cardinality(comments) < MaxComments
            /\ comments' = insert_comment(
                   [id |-> next_comment_id, author_id |-> session[s],
                    post_id |-> IF requested_post = None THEN NULL
                                ELSE Row(requested_post).id,
                    text |-> f.comment_text])
            /\ resp' = Response(render_post(requested_post), "", "", None)
    /\ UNCHANGED <<users, posts, session, reg, plain, created>>

\* abort(403)
Forbidden ==
    /\ resp' = Response(403, "", "", None)
    /\ UNCHANGED <<users, posts, comments, session, reg, plain, created>>

add_new_post(s, m, f) ==
    IF ~admin_only(session[s]) THEN Forbidden
    ELSE
    /\ IF ~validate_on_submit(m, f)
       THEN /\ resp' = Response(200, "", "", None)
            /\ UNCHANGED <<posts, created>>
       ELSE IF \E p \in posts : p.title = f.title
       THEN \* IntegrityError on the unique title column
            /\ resp' = Response(500, "", "", None)
            /\ UNCHANGED <<posts, created>>
       ELSE /\ created < MaxPosts
            /\ posts' = insert_post(
                   [id |-> next_post_id, author_id |-> session[s], title |-> f.title,
                    subtitle |-> f.subtitle, date |-> Today, body |-> f.body,
                    img_url |-> f.img_url, serial |-> created + 1])
            /\ created' = created + 1
            /\ resp' = Response(302, "get_all_posts", "", None)
    /\ UNCHANGED <<users, comments, session, reg, plain>>

edit_post(s, m, post_id, f) ==
    IF ~admin_only(session[s]) THEN Forbidden
    ELSE
    /\ LET result == query_get_post(post_id)
           post == Row(result) IN
       IF result = None
       THEN \* post.title on None: AttributeError
            /\ resp' = Response(500, "", "", None)
            /\ UNCHANGED posts
       ELSE IF validate_on_submit(m, f)
       THEN IF \E p \in posts \ {post} : p.title = f.title
            THEN /\ resp' = Response(500, "", "", None)
                 /\ UNCHANGED posts
            ELSE /\ posts' = (posts \ {post}) \cup
                        {[post EXCEPT !.title = f.title, !.subtitle = f.subtitle,
                                      !.img_url = f.img_url, !.author_id = f.author,
                                      !.body = f.body]}
                 /\ resp' = Response(302, "show_post", "", None)
       ELSE /\ resp' = Response(200, "", "", None)
            /\ UNCHANGED posts
    /\ UNCHANGED <<users, comments, session, reg, plain, created>>

delete_post(s, post_id) ==
    IF ~admin_only(session[s]) THEN Forbidden
    ELSE
    /\ LET result == query_get_post(post_id)
           post_to_delete == Row(result) IN
       IF result = None
       THEN \* db.session.delete(None): UnmappedInstanceError
            /\ resp' = Response(500, "", "", None)
            /\ UNCHANGED <<posts, comments>>
       ELSE /\ posts' = delete_post_row(post_to_delete)
            /\ comments' = orphan_comments(post_to_delete)
            /\ resp' = Response(302, "get_all_posts", "", None)
    /\ UNCHANGED <<users, session, reg, plain, created>>

\* the handler's return: the response leaves for the browser
send_response ==
    /\ resp # NoResponse
    /\ resp' = NoResponse
    /\ UNCHANGED <<users, posts, comments, session, reg, plain, created>>

\* a request for /edit-post/<post_id> as the router sees it
request_edit_post(s, m, post_id, f) ==
    IF m \in RouteMethods("edit_post") THEN edit_post(s, m, post_id, f)
    ELSE MethodNotAllowed

\* ------------------------------------------------------- specification
Route405 == (\E h \in GetOnlyHandlers : "POST" \notin RouteMethods(h)) /\ MethodNotAllowed
DoList == \E s \in Sessions : get_all_posts(s)
DoStatic == \E s \in Sessions : static_page(s)
DoRegister(F) == \E s \in Sessions, m \in RouteMethods("register") :
                    \E f \in FormsFor(m, F) : register(s, m, f)
DoRegisterCommit(S) == \E s \in Sessions, salt \in S : register_commit(s, salt)
DoLogin == \E s \in Sessions, m \in RouteMethods("login") :
                    \E f \in FormsFor(m, LoginForms) : login(s, m, f)
DoLogout == \E s \in Sessions : logout(s)
DoShowPost == \E s \in Sessions, m \in RouteMethods("show_post"), post_id \in PostIds :
                    \E f \in FormsFor(m, CommentForms) : show_post(s, m, post_id, f)
DoAddNewPost == \E s \in Sessions, m \in RouteMethods("add_new_post") :
                    \E f \in FormsFor(m, PostForms) : add_new_post(s, m, f)
DoEditPost == \E s \in Sessions, m \in RouteMethods("edit_post"), post_id \in PostIds :
                    \E f \in FormsFor(m, PostForms) : edit_post(s, m, post_id, f)
DoDeletePost == \E s \in Sessions, post_id \in PostIds : delete_post(s, post_id)

\* no response is waiting to be sent: the next request can be taken
Sent == resp = NoResponse
\* and no registration is between its lookup and its commit
Quiet == Sent /\ \A s \in Sessions : reg[s] = Idle

\* The whole application, one request at a time (a registration commits and every
\* response is sent before the next request starts); every account registers with
\* one name and password
AppCredentials == {<<"Ann", 11>>}
AppSalts == {1}
Next ==
    \/ Quiet /\ Route405
    \/ Quiet /\ DoList
    \/ Quiet /\ DoStatic
    \/ Quiet /\ DoRegister(RegisterForms(Emails, AppCredentials))
    \/ DoRegisterCommit(AppSalts)
    \/ Quiet /\ DoLogin
    \/ Quiet /\ DoLogout
    \/ Quiet /\ DoShowPost
    \/ Quiet /\ DoAddNewPost
    \/ Quiet /\ DoEditPost
    \/ Quiet /\ DoDeletePost
    \/ send_response

Spec == Init /\ [][Next]_vars

\* The account handlers alone, registrations interleaving freely (two may both pass
\* the lookup before either commits), over every name, password and salt
NextAuth ==
    \/ Sent /\ DoRegister(RegisterForms(Emails, Credentials))
    \/ Sent /\ DoRegisterCommit(Salts)
    \/ Sent /\ DoLogin
    \/ Sent /\ DoLogout
    \/ send_response

SpecAuth == Init /\ [][NextAuth]_vars

\* ------------------------------------------------------------- claims
SomeEmail(email) == \E i \in 1..Len(users) : users[i].email = email
AllRegisterForms == RegisterForms(Emails, Credentials)
RedirectToListing == Response(302, "get_all_posts", "", None)
IsNew(c) == ~\E d \in comments : d.id = c.id

\* the step, if it is a request of session s to an @admin_only handler, is answered
\* 403 and writes nothing
Refused == resp'.status = 403 /\ UNCHANGED <<users, posts, comments>>
AdminHandlersRefuse(s) ==
    /\ \A m \in RouteMethods("add_new_post") : \A f \in FormsFor(m, PostForms) :
            add_new_post(s, m, f) => Refused
    /\ \A post_id \in PostIds, m \in RouteMethods("edit_post") :
            \A f \in FormsFor(m, PostForms) : edit_post(s, m, post_id, f) => Refused
    /\ \A post_id \in PostIds : delete_post(s, post_id) => Refused

\* C1: a request to the create-post, edit-post or delete-post handler by a session
\* that is not authenticated as user 1 (anonymous or any other user) is answered 403
\* and leaves the three tables as they were; the Posts table changes only in a step
\* taken while some session is authenticated as user 1.
C1_AdminOnly ==
    [][/\ \A s \in Sessions : session[s] # AdminId => AdminHandlersRefuse(s)
       /\ posts' # posts => \E s \in Sessions : session[s] = AdminId]_vars

\* a non-admin user is logged in and the last request was refused
C1_Witness ==
    /\ resp.status = 403
    /\ \E s \in Sessions : session[s] # Anon /\ session[s] # AdminId

\* C2: the registration that loses a race on one email (its commit finds the email
\* taken) leaves exactly one user with that email, is answered like DuplicateEmail
\* (the notice, a redirect to login) and authenticates nobody.
C2_RaceLoserGetsDuplicateEmail ==
    [][\A s \in Sessions, salt \in Salts :
            (reg[s] # Idle /\ SomeEmail(reg[s].email) /\ register_commit(s, salt))
                => /\ Cardinality({i \in 1..Len(users') :
                                      users'[i].email = reg[s].email}) = 1
                   /\ resp' = Response(302, "login", DuplicateEmailNotice, None)
                   /\ session' = session]_vars

\* C3: a valid registration whose email no user has creates the user (the rows
\* before it untouched) and authenticates the session as it; a valid registration
\* whose email a user already has is answered with the DuplicateEmail notice and a
\* redirect to login, and changes neither the users table (so the account's hash
\* and name stay) nor any session.
C3_RegisterTwice ==
    [][\A s \in Sessions :
        /\ \A f \in AllRegisterForms :
            (SomeEmail(f.email) /\ register(s, "POST", f))
                => /\ resp' = Response(302, "login", DuplicateEmailNotice, None)
                   /\ users' = users
                   /\ session' = session
                   /\ reg' = reg
        /\ \A salt \in Salts :
            (reg[s] # Idle /\ ~SomeEmail(reg[s].email) /\ register_commit(s, salt))
                => /\ Len(users') = Len(users) + 1
                   /\ \A i \in 1..Len(users) : users'[i] = users[i]
                   /\ users'[Len(users')].email = reg[s].email
                   /\ users'[Len(users')].name = reg[s].name
                   /\ session'[s] = Len(users')
                   /\ resp' = RedirectToListing]_vars

\* a second registration with a registered email was just turned away
C3_Witness ==
    /\ resp = Response(302, "login", DuplicateEmailNotice, None)
    /\ Len(users) >= 1
    /\ \E s \in Sessions : session[s] = AdminId

\* C4: a valid login with a registered user's email authenticates the session as
\* that user when the password is the one the user registered with, and otherwise is
\* answered BadPassword and leaves every session as it was.
C4_LoginIffPassword ==
    [][\A s \in Sessions, f \in LoginForms :
            (SomeEmail(f.email) /\ login(s, "POST", f))
                => LET u == CHOOSE i \in 1..Len(users) : users[i].email = f.email IN
                   IF f.password = plain[u]
                   THEN session'[s] = u /\ resp' = RedirectToListing
                   ELSE /\ session' = session
                        /\ resp' = Response(302, "login", BadPasswordNotice, None)]_vars

\* a login with a wrong password was just turned away, the session still anonymous
C4_Witness ==
    /\ resp = Response(302, "login", BadPasswordNotice, None)
    /\ Len(users) = 2
    /\ \E s \in Sessions : session[s] = Anon

\* C5: a valid comment form from an anonymous session adds no comment and is
\* answered with a redirect to login; every comment row that appears has as author
\* the user some session is authenticated as in that step.
C5_AnonymousComment ==
    [][/\ \A s \in Sessions, post_id \in PostIds, f \in CommentForms :
            (session[s] = Anon /\ show_post(s, "POST", post_id, f))
                => /\ comments' = comments
                   /\ resp' = Response(302, "login", LoginToCommentNotice, None)
       /\ \A c \in comments' :
            IsNew(c) => /\ c.author_id # Anon
                        /\ \E s \in Sessions : session[s] = c.author_id]_vars

\* an anonymous comment was just turned away while a post exists
C5_Witness ==
    /\ resp = Response(302, "login", LoginToCommentNotice, None)
    /\ posts # {}

\* C6: a valid edit form POSTed by the admin for an existing post (its title not
\* taken by another post) makes the stored title, subtitle, image URL, author and
\* body the submitted ones, keeps the row's id and date, and changes no other post,
\* user or comment.
C6_EditWritesFields ==
    [][\A s \in Sessions, post_id \in PostIds, f \in PostForms :
            (/\ session[s] = AdminId
             /\ query_get_post(post_id) # None
             /\ ~\E p \in posts : p.id # post_id /\ p.title = f.title
             /\ request_edit_post(s, "POST", post_id, f))
                => LET post == Row(query_get_post(post_id)) IN
                   /\ posts' = (posts \ {post}) \cup
                        {[post EXCEPT !.title = f.title, !.subtitle = f.subtitle,
                                      !.img_url = f.img_url, !.author_id = f.author,
                                      !.body = f.body]}
                   /\ users' = users
                   /\ comments' = comments]_vars

\* C7: every comment row that appears refers to a user and to a post that are
\* in the store in that step.
C7_CommentReferencesResolve ==
    [][\A c \in comments' :
            IsNew(c) => /\ c.author_id \in 1..Len(users)
                        /\ \E p \in posts : p.id = c.post_id]_vars

\* C8: the admin's delete of an existing post leaves the listing without that row
\* and with every other row, no fetch by id returns the row afterwards, and a row
\* that has left the table never comes back.
C8_DeletedStaysDeleted ==
    [][/\ \A s \in Sessions, post_id \in PostIds :
            (/\ session[s] = AdminId
             /\ query_get_post(post_id) # None
             /\ delete_post(s, post_id))
                => LET p == Row(query_get_post(post_id)) IN
                   /\ query_all_posts' = query_all_posts \ {p}
                   /\ \A id \in PostIds : p \notin query_get_post(id)'
       /\ \A k \in 1..created :
            (~\E p \in posts : p.serial = k)
                => \A id \in PostIds : \A q \in query_get_post(id)' : q.serial # k]_vars

\* the second of two posts was just deleted, the first is still listed
C8_Witness ==
    /\ created = 2
    /\ Cardinality(posts) = 1
    /\ \E p \in posts : p.serial = 1
    /\ resp = RedirectToListing

\* C9: a valid create-post form from the admin with an unused title makes the
\* listing hold exactly one more row: the submitted fields, the admin as author,
\* an id no other row has; the rows listed before are all still listed, unchanged.
C9_CreateThenListed ==
    [][\A s \in Sessions, f \in PostForms :
            (/\ session[s] = AdminId
             /\ ~\E p \in posts : p.title = f.title
             /\ add_new_post(s, "POST", f))
                => LET new == query_all_posts' \ query_all_posts IN
                   /\ Cardinality(new) = 1
                   /\ query_all_posts \subseteq query_all_posts'
                   /\ \A p \in new :
                        /\ p.title = f.title /\ p.subtitle = f.subtitle
                        /\ p.body = f.body /\ p.img_url = f.img_url
                        /\ p.author_id = session[s]
                        /\ \A q \in query_all_posts : q.id # p.id]_vars

\* the admin created a second post after the first was deleted: it is listed
\* alone, under the id the store hands out again
C9_Witness ==
    /\ created = 2
    /\ \E p \in posts : p.serial = 2 /\ p.id = 1 /\ p.author_id = AdminId
    /\ resp = RedirectToListing

\* C10: logout is always possible, is answered with the redirect, leaves the
\* session anonymous and the tables and the other sessions as they were; an
\* anonymous session is refused by the admin handlers, persists no comment, and
\* stops being anonymous only by a login or a registration of its own.
C10_Logout ==
    /\ [](\A s \in Sessions : ENABLED logout(s))
    /\ [][\A s \in Sessions :
            /\ logout(s)
                => /\ session'[s] = Anon
                   /\ \A t \in Sessions \ {s} : session'[t] = session[t]
                   /\ UNCHANGED <<users, posts, comments>>
                   /\ resp' = RedirectToListing
            /\ session[s] = Anon
                => /\ AdminHandlersRefuse(s)
                   /\ \A post_id \in PostIds, f \in CommentForms :
                        show_post(s, "POST", post_id, f) => comments' = comments
                   /\ session'[s] # Anon
                        => \/ \E f \in LoginForms : login(s, "POST", f)
                           \/ \E salt \in Salts : reg[s] # Idle /\ register_commit(s, salt)]_vars

\* a session that was logged in has logged out
C10_Witness ==
    /\ Len(users) >= 1
    /\ \A s \in Sessions : session[s] = Anon
    /\ resp = RedirectToListing

====
